---- MODULE Spec2Model ----
(***************************************************************************)
(* PVA electrospinning predictor: the App component's prediction engine    *)
(* (src/vite.config.js, function App) as a state machine.                  *)
(*                                                                         *)
(* The React state hooks are the variables; the slider handlers, a render  *)
(* of the component and the body of the useEffect are the actions.         *)
(*                                                                         *)
(* Numbers.  The source computes in JavaScript doubles.  The model         *)
(* computes the same expressions in exact arithmetic: a number is a record *)
(* [neg, man, exp, q] whose mantissa is a natural of arbitrary size, held  *)
(* as a little-endian sequence of base-10000 limbs (TLC's own integers are *)
(* 32 bit wide and the products of the pipeline do not fit).  Every        *)
(* decimal literal of the source is written as the fraction it denotes     *)
(* (0.015 is Dec(15, 1000)).                                               *)
(***************************************************************************)
EXTENDS Integers, Sequences, FiniteSets, TLC

(***************************************************************************)
(* Naturals of arbitrary size.                                             *)
(***************************************************************************)
RECURSIVE NatOf(_)
NatOf(n) ==
  IF n = 0 THEN << >> ELSE <<n % 10000>> \o NatOf(n \div 10000)

RECURSIVE NTrim(_)
NTrim(a) ==
  IF a = << >> THEN a
  ELSE IF a[Len(a)] = 0 THEN NTrim(SubSeq(a, 1, Len(a) - 1)) ELSE a

Limb(a, i) ==
  IF i <= Len(a) THEN a[i] ELSE 0

RECURSIVE NAddFrom(_, _, _, _)
NAddFrom(a, b, i, carry) ==
  IF i > Len(a) /\ i > Len(b)
  THEN (IF carry = 0 THEN << >> ELSE <<carry>>)
  ELSE LET s == Limb(a, i) + Limb(b, i) + carry
       IN  <<s % 10000>> \o NAddFrom(a, b, i + 1, s \div 10000)

NAdd(a, b) ==
  NAddFrom(a, b, 1, 0)

RECURSIVE NSubFrom(_, _, _, _)
NSubFrom(a, b, i, borrow) ==
  IF i > Len(a) THEN << >>
  ELSE LET s == a[i] - Limb(b, i) - borrow
       IN  IF s < 0 THEN <<s + 10000>> \o NSubFrom(a, b, i + 1, 1)
                    ELSE <<s>> \o NSubFrom(a, b, i + 1, 0)

\* a - b for a >= b
NSub(a, b) ==
  NTrim(NSubFrom(a, b, 1, 0))

RECURSIVE NCmpAt(_, _, _)
NCmpAt(a, b, i) ==
  IF i = 0 THEN 0
  ELSE IF a[i] < b[i] THEN -1
  ELSE IF a[i] > b[i] THEN 1
  ELSE NCmpAt(a, b, i - 1)

\* -1, 0 or 1 as a < b, a = b or a > b
NCmp(a, b) ==
  IF Len(a) < Len(b) THEN -1
  ELSE IF Len(a) > Len(b) THEN 1
  ELSE NCmpAt(a, b, Len(a))

RECURSIVE NMulLimb(_, _, _, _)
NMulLimb(a, m, i, carry) ==
  IF i > Len(a)
  THEN (IF carry = 0 THEN << >> ELSE <<carry>>)
  ELSE LET p == a[i] * m + carry
       IN  <<p % 10000>> \o NMulLimb(a, m, i + 1, p \div 10000)

RECURSIVE NMulFrom(_, _, _)
NMulFrom(a, b, j) ==
  IF j > Len(b) THEN << >>
  ELSE NAdd(NMulLimb(a, b[j], 1, 0), <<0>> \o NMulFrom(a, b, j + 1))

NMul(a, b) ==
  IF a = << >> \/ b = << >> THEN << >>
  ELSE IF Len(a) = 1 THEN (IF a[1] = 1 THEN b ELSE NMulLimb(b, a[1], 1, 0))
  ELSE IF Len(b) = 1 THEN (IF b[1] = 1 THEN a ELSE NMulLimb(a, b[1], 1, 0))
  ELSE NTrim(NMulFrom(a, b, 1))

(***************************************************************************)
(* Numbers: (-1)^neg * man * 10000^(-exp) / q, with man a natural, exp the *)
(* number of fractional limbs and q >= 1 a small integer denominator.      *)
(* Every literal of the source is a finite decimal (q = 1); q grows only   *)
(* where the source divides by a number with a factor other than 2 and 5.  *)
(* Zero is never negative and the mantissa has no low zero limb while      *)
(* exp > 0.                                                                *)
(***************************************************************************)
RECURSIVE Zeros(_)
Zeros(k) ==
  IF k = 0 THEN << >> ELSE <<0>> \o Zeros(k - 1)

RECURSIVE Strip(_, _)
Strip(man, exp) ==
  IF exp > 0 /\ man[1] = 0 THEN Strip(Tail(man), exp - 1) ELSE <<man, exp>>

Mk(neg, man, exp, q) ==
  IF man = << >> THEN [neg |-> FALSE, man |-> << >>, exp |-> 0, q |-> 1]
  ELSE LET s == Strip(man, exp)
       IN  [neg |-> neg, man |-> s[1], exp |-> s[2], q |-> q]

\* the decimal literal n/d of the source, d one of 1, 10, 100, 1000, 10000
Dec(n, d) ==
  LET a == IF n < 0 THEN -n ELSE n
  IN  IF d = 1 THEN Mk(n < 0, NatOf(a), 0, 1)
      ELSE Mk(n < 0, NatOf(a * (10000 \div d)), 1, 1)

Num(n) ==
  Dec(n, 1)

\* the mantissa of x * k at exponent e >= x.exp
Scaled(x, e, k) ==
  IF x.man = << >> THEN << >>
  ELSE Zeros(e - x.exp) \o (IF k = 1 THEN x.man ELSE NMul(x.man, NatOf(k)))

\* -1, 0 or 1 as |x| < |y|, |x| = |y| or |x| > |y|
MagCmp(x, y) ==
  LET e == IF x.exp > y.exp THEN x.exp ELSE y.exp
      same == x.q = y.q
  IN  NCmp(Scaled(x, e, IF same THEN 1 ELSE y.q),
           Scaled(y, e, IF same THEN 1 ELSE x.q))

\* -1, 0 or 1 as x < y, x = y or x > y
RCmp(x, y) ==
  IF x.neg /\ ~y.neg THEN -1
  ELSE IF ~x.neg /\ y.neg THEN 1
  ELSE IF x.neg THEN -MagCmp(x, y) ELSE MagCmp(x, y)

Lt(x, y) == RCmp(x, y) < 0
Le(x, y) == RCmp(x, y) <= 0
Gt(x, y) == RCmp(x, y) > 0
Ge(x, y) == RCmp(x, y) >= 0
Eq(x, y) == RCmp(x, y) = 0

Neg(x) ==
  Mk(~x.neg, x.man, x.exp, x.q)

Add(x, y) ==
  LET e    == IF x.exp > y.exp THEN x.exp ELSE y.exp
      same == x.q = y.q
      a    == Scaled(x, e, IF same THEN 1 ELSE y.q)
      b    == Scaled(y, e, IF same THEN 1 ELSE x.q)
      q    == IF same THEN x.q ELSE x.q * y.q
  IN  IF x.neg = y.neg THEN Mk(x.neg, NAdd(a, b), e, q)
      ELSE IF NCmp(a, b) >= 0 THEN Mk(x.neg, NSub(a, b), e, q)
      ELSE Mk(y.neg, NSub(b, a), e, q)

Sub(x, y) ==
  Add(x, Neg(y))

Mul(x, y) ==
  Mk(x.neg # y.neg, NMul(x.man, y.man), x.exp + y.exp, x.q * y.q)

\* x / k for an integer k > 0: the factors 10, 5 and 2 of k go into the
\* mantissa (x/10 = x * 0.1, x/5 = x * 0.2, x/2 = x * 0.5), the rest into q
RECURSIVE Div(_, _)
Div(x, k) ==
  IF k = 1 THEN x
  ELSE IF k % 10 = 0 THEN Div(Mul(x, Dec(1, 10)), k \div 10)
  ELSE IF k % 5 = 0 THEN Div(Mul(x, Dec(2, 10)), k \div 5)
  ELSE IF k % 2 = 0 THEN Div(Mul(x, Dec(5, 10)), k \div 2)
  ELSE Mk(x.neg, x.man, x.exp, x.q * k)

\* Math.max and Math.min on two numbers
MathMax(x, y) ==
  IF Ge(x, y) THEN x ELSE y

MathMin(x, y) ==
  IF Le(x, y) THEN x ELSE y

\* the limbs 1 .. i of a \div k for an integer k > 0, by long division from
\* the top limb down; rem is the remainder carried into limb i
RECURSIVE NDivFrom(_, _, _, _)
NDivFrom(a, k, i, rem) ==
  IF i = 0 THEN << >>
  ELSE LET cur == rem * 10000 + a[i]
       IN  NDivFrom(a, k, i - 1, cur % k) \o <<cur \div k>>

NDivSmall(a, k) ==
  IF k = 1 THEN a ELSE NTrim(NDivFrom(a, k, Len(a), 0))

\* the natural floor(|x|)
IntPart(x) ==
  IF Len(x.man) <= x.exp THEN << >>
  ELSE NDivSmall(SubSeq(x.man, x.exp + 1, Len(x.man)), x.q)

\* Math.floor
MathFloor(x) ==
  LET ip == Mk(FALSE, IntPart(x), 0, 1)
  IN  IF ~x.neg THEN ip
      ELSE IF MagCmp(ip, x) = 0 THEN x
      ELSE Neg(Add(ip, Num(1)))

\* Math.round: the nearest integer, a tie going up
MathRound(x) ==
  MathFloor(Add(x, Dec(5, 10)))

(***************************************************************************)
(* Math.exp.  The exponential is not a rational number, so the model       *)
(* computes it to FixLimbs fractional limbs (4 * FixLimbs decimal digits): *)
(* the power series 1 + x + x^2/2 + x^3/6 + ..., every term cut to that    *)
(* precision, summed until a term is cut to zero.  The result is within    *)
(* a few units of the last limb of the double the source computes.         *)
(***************************************************************************)
FixLimbs == 3

\* x cut, towards zero, to FixLimbs fractional limbs
Fix(x) ==
  IF Len(x.man) + FixLimbs <= x.exp THEN Num(0)
  ELSE LET m == IF x.exp >= FixLimbs
                THEN SubSeq(x.man, x.exp - FixLimbs + 1, Len(x.man))
                ELSE Zeros(FixLimbs - x.exp) \o x.man
       IN  Mk(x.neg, NTrim(NDivSmall(m, x.q)), FixLimbs, 1)

\* term + term * x / n + term * x^2 / (n (n + 1)) + ...
RECURSIVE ExpSum(_, _, _)
ExpSum(x, term, n) ==
  IF term.man = << >> THEN term
  ELSE Add(term, ExpSum(x, Fix(Div(Mul(term, x), n)), n + 1))

MathExp(x) ==
  ExpSum(Fix(x), Num(1), 1)

\* Math.round(x / y) for x >= 0 and y > 0 with lo <= x/y + 0.5 < hi + 1: the
\* greatest n in lo .. hi with (2n - 1) * y <= 2x, found by bisection
RECURSIVE RoundedQuotient(_, _, _, _)
RoundedQuotient(x, y, lo, hi) ==
  IF lo = hi THEN lo
  ELSE LET mid == (lo + hi + 1) \div 2
       IN  IF Le(Mul(Num(2 * mid - 1), y), Mul(Num(2), x))
           THEN RoundedQuotient(x, y, mid, hi)
           ELSE RoundedQuotient(x, y, lo, mid - 1)

\* the greatest r in lo .. hi with r * r <= n, found by bisection
RECURSIVE IsqrtBetween(_, _, _)
IsqrtBetween(n, lo, hi) ==
  IF lo = hi THEN lo
  ELSE LET mid == (lo + hi + 1) \div 2
       IN  IF mid * mid <= n THEN IsqrtBetween(n, mid, hi)
           ELSE IsqrtBetween(n, lo, mid - 1)

(***************************************************************************)
(* STAGE 1: process to architecture (the first half of the effect).        *)
(* Parameters m, c, v, q, d are mw, concentration, voltage, flowRate and   *)
(* distance; fd, por, ps, ym are fiberDiameter, porosity, poreSize and     *)
(* youngsModulus.                                                          *)
(***************************************************************************)
Clamp(lo, hi, x) ==
  MathMax(lo, MathMin(hi, x))

viscosityFactorOf(m, c) ==
  Mul(Div(m, 100000), Div(c, 10))

voltageFactorOf(v) ==
  Sub(Num(1), Mul(Sub(v, Dec(175, 10)), Dec(15, 1000)))

flowFactorOf(q) ==
  Add(Num(1), Mul(Sub(q, Dec(15, 10)), Dec(12, 100)))

distanceFactorOf(d) ==
  Add(Num(1), Mul(Sub(d, Num(15)), Dec(8, 1000)))

\* fiberDiameterOf without the Math.min(1500, ...)
fiberDiameterNoUpperClamp(m, c, v, q, d) ==
  MathMax(Num(150),
          Mul(Mul(Mul(Mul(Num(400), viscosityFactorOf(m, c)), voltageFactorOf(v)),
                  flowFactorOf(q)), distanceFactorOf(d)))

\* fiberDiameterOf without the Math.max(150, ...)
fiberDiameterNoLowerClamp(m, c, v, q, d) ==
  MathMin(Num(1500),
          Mul(Mul(Mul(Mul(Num(400), viscosityFactorOf(m, c)), voltageFactorOf(v)),
                  flowFactorOf(q)), distanceFactorOf(d)))

fiberDiameterOf(m, c, v, q, d) ==
  Clamp(Num(150), Num(1500),
        Mul(Mul(Mul(Mul(Num(400), viscosityFactorOf(m, c)), voltageFactorOf(v)),
                flowFactorOf(q)), distanceFactorOf(d)))

porosityOf(fd, v) ==
  Clamp(Num(60), Num(95),
        Add(Sub(Num(95), Mul(Div(fd, 100), Dec(25, 10))),
            Mul(Sub(v, Dec(175, 10)), Dec(5, 10))))

poreSizeOf(fd, por) ==
  Clamp(Num(2), Num(15),
        Add(Mul(Div(fd, 200), Dec(15, 10)), Div(por, 20)))

\* tensileStrengthOf with the thick-fibre penalty at fd > 100 instead of 1000
tensileStrengthPenaltyAt100(m, c, fd) ==
  Clamp(Num(2), Num(32),
        Sub(Add(Add(Dec(25, 10), Mul(Div(m, 100000), Dec(52, 10))),
                Mul(Sub(c, Num(10)), Dec(35, 100))),
            IF Gt(fd, Num(100)) THEN Num(2) ELSE Num(0)))

tensileStrengthOf(m, c, fd) ==
  Clamp(Num(2), Num(32),
        Sub(Add(Add(Dec(25, 10), Mul(Div(m, 100000), Dec(52, 10))),
                Mul(Sub(c, Num(10)), Dec(35, 100))),
            IF Gt(fd, Num(1000)) THEN Num(2) ELSE Num(0)))

\* youngsModulusOf with the MW term subtracted instead of added
youngsModulusFallingWithMw(m, c) ==
  Clamp(Num(20), Num(85),
        Add(Sub(Num(25), Mul(Div(m, 100000), Num(60))),
            Mul(Sub(c, Num(10)), Dec(25, 10))))

youngsModulusOf(m, c) ==
  Clamp(Num(20), Num(85),
        Add(Add(Num(25), Mul(Div(m, 100000), Num(60))),
            Mul(Sub(c, Num(10)), Dec(25, 10))))

waterAbsorptionOf(m, por) ==
  Clamp(Num(350), Num(950),
        Add(Sub(Num(950), Mul(Div(m, 100000), Num(280))),
            Mul(Sub(por, Num(75)), Num(8))))

contactAngleOf(m, por) ==
  Clamp(Num(35), Num(75),
        Sub(Add(Num(45), Mul(Div(m, 100000), Num(15))),
            Mul(Sub(por, Num(75)), Dec(3, 10))))

\* degradationRateOf without the porosity term
degradationRateNoPorosity(m, por) ==
  Clamp(Num(4), Num(25),
        Sub(Num(25), Mul(Div(m, 100000), Dec(105, 10))))

degradationRateOf(m, por) ==
  Clamp(Num(4), Num(25),
        Add(Sub(Num(25), Mul(Div(m, 100000), Dec(105, 10))),
            Mul(Sub(por, Num(75)), Dec(15, 100))))

swellingRatioOf(m, c) ==
  Clamp(Num(80), Num(100),
        Sub(Sub(Num(100), Mul(Div(m, 100000), Num(8))),
            Mul(Sub(c, Num(10)), Dec(5, 10))))

\* Concentration window assessment
\* minConcOf without the tier from 150000 up
minConcTwoTiers(m) ==
  IF Lt(m, Num(70000)) THEN Num(6) ELSE Num(8)

minConcOf(m) ==
  IF Lt(m, Num(70000)) THEN Num(6)
  ELSE IF Lt(m, Num(150000)) THEN Num(8) ELSE Num(9)

maxConcOf(m) ==
  IF Lt(m, Num(70000)) THEN Num(14)
  ELSE IF Lt(m, Num(150000)) THEN Num(12) ELSE Dec(105, 10)

\* isInWindowOf with both comparisons strict
isInWindowExclusive(m, c) ==
  Gt(c, minConcOf(m)) /\ Lt(c, maxConcOf(m))

isInWindowOf(m, c) ==
  Ge(c, minConcOf(m)) /\ Le(c, maxConcOf(m))

\* the conditions of the three rules of the morphology assessment
beadedRule(m, c) ==
  Lt(m, Num(70000)) /\ Lt(c, Num(9))

\* thickRule with mw >= 150000
thickRuleInclusive150k(m, c) ==
  Ge(m, Num(150000)) /\ Gt(c, Num(10))

thickRule(m, c) ==
  Gt(m, Num(150000)) /\ Gt(c, Num(10))

optimalRule(m, c) ==
  Ge(m, Num(100000)) /\ Le(m, Num(150000))

\* morphologyOf with mw <= 70000 in the first rule
morphologyInclusive70k(m, c) ==
  IF Le(m, Num(70000)) /\ Lt(c, Num(9))
  THEN "Beaded fibers (beads-on-string)"
  ELSE IF Gt(m, Num(150000)) /\ Gt(c, Num(10))
  THEN "Thick fibers, potential ribbon-like"
  ELSE IF Ge(m, Num(100000)) /\ Le(m, Num(150000))
  THEN "Smooth, uniform, bead-free (optimal)"
  ELSE "Uniform, bead-free fibers"

\* Morphology assessment
morphologyOf(m, c) ==
  IF Lt(m, Num(70000)) /\ Lt(c, Num(9))
  THEN "Beaded fibers (beads-on-string)"
  ELSE IF Gt(m, Num(150000)) /\ Gt(c, Num(10))
  THEN "Thick fibers, potential ribbon-like"
  ELSE IF Ge(m, Num(100000)) /\ Le(m, Num(150000))
  THEN "Smooth, uniform, bead-free (optimal)"
  ELSE "Uniform, bead-free fibers"

\* predictArchitecture with swellingRatio computed from the voltage in the
\* place of the concentration
predictArchitectureSwellingFromVoltage(m, c, v, q, d) ==
  LET fd  == fiberDiameterOf(m, c, v, q, d)
      por == porosityOf(fd, v)
  IN  [fiberDiameter   |-> fd,
       porosity        |-> por,
       poreSize        |-> poreSizeOf(fd, por),
       tensileStrength |-> tensileStrengthOf(m, c, fd),
       youngsModulus   |-> youngsModulusOf(m, c),
       waterAbsorption |-> waterAbsorptionOf(m, por),
       contactAngle    |-> contactAngleOf(m, por),
       degradationRate |-> degradationRateOf(m, por),
       swellingRatio   |-> swellingRatioOf(m, v),
       morphology      |-> morphologyOf(m, c),
       isInWindow      |-> isInWindowOf(m, c),
       minConc         |-> minConcOf(m),
       maxConc         |-> maxConcOf(m)]

\* the record handed to setPredictions
predictArchitecture(m, c, v, q, d) ==
  LET fd  == fiberDiameterOf(m, c, v, q, d)
      por == porosityOf(fd, v)
  IN  [fiberDiameter   |-> fd,
       porosity        |-> por,
       poreSize        |-> poreSizeOf(fd, por),
       tensileStrength |-> tensileStrengthOf(m, c, fd),
       youngsModulus   |-> youngsModulusOf(m, c),
       waterAbsorption |-> waterAbsorptionOf(m, por),
       contactAngle    |-> contactAngleOf(m, por),
       degradationRate |-> degradationRateOf(m, por),
       swellingRatio   |-> swellingRatioOf(m, c),
       morphology      |-> morphologyOf(m, c),
       isInWindow      |-> isInWindowOf(m, c),
       minConc         |-> minConcOf(m),
       maxConc         |-> maxConcOf(m)]

(***************************************************************************)
(* STAGE 2: architecture to biology (the second half of the effect).       *)
(***************************************************************************)
cellViabilityOf(fd, por) ==
  Clamp(Num(85), Num(98),
        Add(Add(Num(92), IF Gt(por, Num(75)) THEN Num(4) ELSE Num(0)),
            IF Gt(fd, Num(300)) /\ Lt(fd, Num(900)) THEN Num(2) ELSE Num(0)))

proliferationTimeOf(fd, por, ps) ==
  Clamp(Num(20), Num(48),
        Add(Sub(Sub(Num(32), Mul(Sub(por, Num(75)), Dec(3, 10))),
                IF Gt(ps, Num(4)) THEN Num(4) ELSE Num(0)),
            IF Gt(fd, Num(1000)) THEN Num(6) ELSE Num(0)))

gagContentOf(fd, ps, ym) ==
  Clamp(Num(5), Num(45),
        Add(Add(Add(Num(10), Div(ym, 10)),
                IF Gt(ps, Num(6)) THEN Num(15) ELSE Num(0)),
            IF Gt(fd, Num(800)) THEN Num(8) ELSE Num(0)))

\* col2ExpressionOf without the Math.min(8, ...)
col2ExpressionNoUpperClamp(m, ps, ym) ==
  MathMax(Num(1),
          Add(Add(Add(Dec(15, 10), Div(ym, 15)),
                  IF Gt(ps, Num(6)) THEN Dec(25, 10) ELSE Num(0)),
              IF Gt(m, Num(140000)) THEN Dec(15, 10) ELSE Num(0)))

col2ExpressionOf(m, ps, ym) ==
  Clamp(Num(1), Num(8),
        Add(Add(Add(Dec(15, 10), Div(ym, 15)),
                IF Gt(ps, Num(6)) THEN Dec(25, 10) ELSE Num(0)),
            IF Gt(m, Num(140000)) THEN Dec(15, 10) ELSE Num(0)))

aggrecanExpressionOf(fd, ps, ym) ==
  Clamp(Num(1), Num(6),
        Add(Add(Add(Dec(12, 10), Div(ym, 20)),
                IF Gt(ps, Num(6)) THEN Num(2) ELSE Num(0)),
            IF Gt(fd, Num(800)) THEN Num(1) ELSE Num(0)))

col1_col2_ratioOf(m, ps, ym) ==
  Clamp(Dec(1, 10), Dec(25, 10),
        Sub(Sub(Sub(Dec(20, 10), Div(ym, 50)),
                IF Gt(ps, Num(6)) THEN Dec(8, 10) ELSE Num(0)),
            IF Gt(m, Num(140000)) THEN Dec(3, 10) ELSE Num(0)))

\* mscOf with youngsModulus <= 60 in the second branch
mscUpperInclusive(ym) ==
  IF Lt(ym, Num(35))
  THEN [mscLineage |-> "Neurogenic (soft substrate)",
        neurogenicScore |-> 85, osteogenicScore |-> 25, chondrogenicScore |-> 40]
  ELSE IF Ge(ym, Num(35)) /\ Le(ym, Num(60))
  THEN [mscLineage |-> "Myogenic/Chondrogenic",
        neurogenicScore |-> 40, osteogenicScore |-> 45, chondrogenicScore |-> 80]
  ELSE [mscLineage |-> "Osteogenic (stiff substrate)",
        neurogenicScore |-> 20, osteogenicScore |-> 90, chondrogenicScore |-> 55]

\* mscOf with youngsModulus > 60 in the last branch, the initial values of
\* the four variables left in place otherwise
mscLastBranchExclusive(ym) ==
  IF Lt(ym, Num(35))
  THEN [mscLineage |-> "Neurogenic (soft substrate)",
        neurogenicScore |-> 85, osteogenicScore |-> 25, chondrogenicScore |-> 40]
  ELSE IF Ge(ym, Num(35)) /\ Lt(ym, Num(60))
  THEN [mscLineage |-> "Myogenic/Chondrogenic",
        neurogenicScore |-> 40, osteogenicScore |-> 45, chondrogenicScore |-> 80]
  ELSE IF Gt(ym, Num(60))
  THEN [mscLineage |-> "Osteogenic (stiff substrate)",
        neurogenicScore |-> 20, osteogenicScore |-> 90, chondrogenicScore |-> 55]
  ELSE [mscLineage |-> "Myogenic (intermediate)",
        neurogenicScore |-> 50, osteogenicScore |-> 50, chondrogenicScore |-> 50]

\* MSC differentiation potential: the label and the three scores, as integers
mscOf(ym) ==
  IF Lt(ym, Num(35))
  THEN [mscLineage |-> "Neurogenic (soft substrate)",
        neurogenicScore |-> 85, osteogenicScore |-> 25, chondrogenicScore |-> 40]
  ELSE IF Ge(ym, Num(35)) /\ Lt(ym, Num(60))
  THEN [mscLineage |-> "Myogenic/Chondrogenic",
        neurogenicScore |-> 40, osteogenicScore |-> 45, chondrogenicScore |-> 80]
  ELSE [mscLineage |-> "Osteogenic (stiff substrate)",
        neurogenicScore |-> 20, osteogenicScore |-> 90, chondrogenicScore |-> 55]

\* burstReleaseOf with the MW term added to 20 instead of subtracted from 70
burstReleaseRisingWithMw(m, por) ==
  Clamp(Num(15), Num(75),
        Add(Add(Num(20), Mul(Div(m, 100000), Num(25))),
            Mul(Sub(por, Num(75)), Dec(8, 10))))

\* Drug release profile
burstReleaseOf(m, por) ==
  Clamp(Num(15), Num(75),
        Add(Sub(Num(70), Mul(Div(m, 100000), Num(25))),
            Mul(Sub(por, Num(75)), Dec(8, 10))))

sustainedDurationOf(m, por) ==
  Clamp(Num(3), Num(28),
        Sub(Add(Num(5), Mul(Div(m, 100000), Num(12))),
            Mul(Sub(por, Num(75)), Dec(2, 10))))

\* the record handed to setBiologicalOutcomes
predictBiology(m, arch) ==
  LET fd  == arch.fiberDiameter
      por == arch.porosity
      ps  == arch.poreSize
      ym  == arch.youngsModulus
      msc == mscOf(ym)
  IN  [cellViability      |-> cellViabilityOf(fd, por),
       proliferationTime  |-> proliferationTimeOf(fd, por, ps),
       gagContent         |-> gagContentOf(fd, ps, ym),
       col2Expression     |-> col2ExpressionOf(m, ps, ym),
       aggrecanExpression |-> aggrecanExpressionOf(fd, ps, ym),
       col1_col2_ratio    |-> col1_col2_ratioOf(m, ps, ym),
       mscLineage         |-> msc.mscLineage,
       osteogenicScore    |-> msc.osteogenicScore,
       chondrogenicScore  |-> msc.chondrogenicScore,
       neurogenicScore    |-> msc.neurogenicScore,
       burstRelease       |-> burstReleaseOf(m, por),
       sustainedDuration  |-> sustainedDurationOf(m, por)]

(***************************************************************************)
(* Scores computed during render from the stored predictions record p;     *)
(* ts and dr are tensileStrength and degradationRate.                      *)
(***************************************************************************)
\* skinRegenerationOf with the diameter penalty divided by 5 instead of 15
skinRegenerationSteep(fd, por, dr) ==
  MathMin(Num(100),
    Mul(Mul(IF Lt(fd, Num(600)) THEN Num(95)
            ELSE Sub(Num(95), Div(Sub(fd, Num(600)), 5)),
            IF Gt(por, Num(80)) THEN Num(1) ELSE Div(por, 80)),
        IF Gt(dr, Num(12)) THEN Num(1) ELSE Dec(85, 100)))

skinRegenerationOf(fd, por, dr) ==
  MathMin(Num(100),
    Mul(Mul(IF Lt(fd, Num(600)) THEN Num(95)
            ELSE Sub(Num(95), Div(Sub(fd, Num(600)), 15)),
            IF Gt(por, Num(80)) THEN Num(1) ELSE Div(por, 80)),
        IF Gt(dr, Num(12)) THEN Num(1) ELSE Dec(85, 100)))

vascularEngineeringOf(fd, ts, por) ==
  MathMin(Num(100),
    Mul(Mul(IF Ge(fd, Num(400)) /\ Le(fd, Num(1200)) THEN Num(95) ELSE Num(75),
            IF Ge(ts, Num(5)) /\ Le(ts, Num(12)) THEN Num(1) ELSE Dec(8, 10)),
        IF Gt(por, Num(70)) THEN Num(1) ELSE Dec(85, 100)))

nerveGuidanceOf(fd, por, dr) ==
  MathMin(Num(100),
    Mul(Mul(IF Ge(fd, Num(500)) /\ Le(fd, Num(900)) THEN Num(95) ELSE Num(80),
            IF Gt(por, Num(72)) THEN Num(1) ELSE Dec(88, 100)),
        IF Ge(dr, Num(6)) /\ Le(dr, Num(10)) THEN Num(1) ELSE Dec(85, 100)))

cartilageRepairOf(fd, ps, ym, dr) ==
  MathMin(Num(100),
    Mul(Mul(Mul(IF Gt(fd, Num(800)) THEN Num(95) ELSE Num(70),
                IF Gt(ps, Num(6)) THEN Num(1) ELSE Dec(75, 100)),
            IF Gt(ym, Num(60)) THEN Num(1) ELSE Div(ym, 60)),
        IF Lt(dr, Num(8)) THEN Num(1) ELSE Dec(8, 10)))

\* boneEngineeringOf with the ratio youngsModulus / 70 used above 70 too
boneEngineeringRatioUnguarded(fd, ym, dr) ==
  MathMin(Num(100),
    Mul(Mul(IF Gt(fd, Num(1000)) THEN Num(95) ELSE Num(80),
            Div(ym, 70)),
        IF Lt(dr, Num(7)) THEN Num(1) ELSE Dec(85, 100)))

boneEngineeringOf(fd, ym, dr) ==
  MathMin(Num(100),
    Mul(Mul(IF Gt(fd, Num(1000)) THEN Num(95) ELSE Num(80),
            IF Gt(ym, Num(70)) THEN Num(1) ELSE Div(ym, 70)),
        IF Lt(dr, Num(7)) THEN Num(1) ELSE Dec(85, 100)))

drugDeliveryOf(fd, por, dr) ==
  MathMin(Num(100),
    Mul(Mul(IF Lt(fd, Num(500)) THEN Num(95) ELSE Num(85),
            IF Gt(por, Num(82)) THEN Num(1) ELSE Dec(88, 100)),
        IF Gt(dr, Num(8)) THEN Num(1) ELSE Dec(9, 10)))

calculateApplicationScores(p) ==
  [skinRegeneration    |-> skinRegenerationOf(p.fiberDiameter, p.porosity,
                                              p.degradationRate),
   vascularEngineering |-> vascularEngineeringOf(p.fiberDiameter, p.tensileStrength,
                                                 p.porosity),
   nerveGuidance       |-> nerveGuidanceOf(p.fiberDiameter, p.porosity,
                                           p.degradationRate),
   cartilageRepair     |-> cartilageRepairOf(p.fiberDiameter, p.poreSize,
                                             p.youngsModulus, p.degradationRate),
   boneEngineering     |-> boneEngineeringOf(p.fiberDiameter, p.youngsModulus,
                                             p.degradationRate),
   drugDelivery        |-> drugDeliveryOf(p.fiberDiameter, p.porosity,
                                          p.degradationRate)]

fibroblastsOf(fd, por, ps) ==
  MathMin(Num(100),
    Mul(Mul(IF Ge(fd, Num(200)) /\ Le(fd, Num(500)) THEN Num(95) ELSE Num(75),
            IF Gt(por, Num(75)) THEN Num(1) ELSE Dec(85, 100)),
        IF Ge(ps, Num(3)) /\ Le(ps, Num(6)) THEN Num(1) ELSE Dec(88, 100)))

endothelialOf(fd, por, ps) ==
  MathMin(Num(100),
    Mul(Mul(IF Ge(fd, Num(400)) /\ Le(fd, Num(1000)) THEN Num(95) ELSE Num(78),
            IF Gt(por, Num(70)) THEN Num(1) ELSE Dec(87, 100)),
        IF Ge(ps, Num(4)) /\ Le(ps, Num(8)) THEN Num(1) ELSE Dec(85, 100)))

schwannOf(fd, por) ==
  MathMin(Num(100),
    Mul(IF Ge(fd, Num(500)) /\ Le(fd, Num(900)) THEN Num(95) ELSE Num(80),
        IF Gt(por, Num(72)) THEN Num(1) ELSE Dec(88, 100)))

chondrocytesOf(fd, ps, ym) ==
  MathMin(Num(100),
    Mul(Mul(IF Gt(fd, Num(800)) THEN Num(95) ELSE Num(70),
            IF Gt(ps, Num(6)) THEN Num(1) ELSE Dec(75, 100)),
        IF Ge(ym, Num(50)) /\ Le(ym, Num(80)) THEN Num(1) ELSE Dec(82, 100)))

osteoblastsOf(fd, ym, ps) ==
  MathMin(Num(100),
    Mul(Mul(IF Gt(fd, Num(1000)) THEN Num(95) ELSE Num(80),
            IF Gt(ym, Num(70)) THEN Num(1) ELSE Div(ym, 70)),
        IF Gt(ps, Num(7)) THEN Num(1) ELSE Dec(85, 100)))

stemCellsOf(fd, por, ps) ==
  MathMin(Num(100),
    Mul(Mul(IF Ge(fd, Num(400)) /\ Le(fd, Num(1200)) THEN Num(95) ELSE Num(82),
            IF Gt(por, Num(70)) THEN Num(1) ELSE Dec(88, 100)),
        IF Ge(ps, Num(5)) THEN Num(1) ELSE Dec(85, 100)))

calculateCellScores(p) ==
  [fibroblasts  |-> fibroblastsOf(p.fiberDiameter, p.porosity, p.poreSize),
   endothelial  |-> endothelialOf(p.fiberDiameter, p.porosity, p.poreSize),
   schwann      |-> schwannOf(p.fiberDiameter, p.porosity),
   chondrocytes |-> chondrocytesOf(p.fiberDiameter, p.poreSize, p.youngsModulus),
   osteoblasts  |-> osteoblastsOf(p.fiberDiameter, p.youngsModulus, p.poreSize),
   stemCells    |-> stemCellsOf(p.fiberDiameter, p.porosity, p.poreSize)]

(***************************************************************************)
(* The component's state.                                                  *)
(*   mw .. distance, predictions, biologicalOutcomes: the useState hooks.  *)
(*   rendered: the hook values the last render of App saw (its closure),   *)
(*             << >> before the first render.  Everything a render shows   *)
(*             is a function of these values.                              *)
(*   needsRender: a state setter has run since the last render.            *)
(*   pendingEffect: the last render scheduled the effect (its dependency   *)
(*             list changed) and the effect has not run yet.               *)
(*   changes: the number of slider changes so far (bounds the model).      *)
(***************************************************************************)
VARIABLES mw, concentration, voltage, flowRate, distance,
          predictions, biologicalOutcomes,
          rendered, needsRender, pendingEffect, changes

vars ==
  <<mw, concentration, voltage, flowRate, distance,
    predictions, biologicalOutcomes,
    rendered, needsRender, pendingEffect, changes>>

\* the empty object {} of useState({})
EmptyObject ==
  << >>

\* Object.keys(o).length > 0
HasKeys(o) ==
  DOMAIN o # {}

(***************************************************************************)
(* Slider values.  Each slider's values are listed in a fixed order, the   *)
(* initial value first, then the ends of the range, then the values next   *)
(* to the thresholds of the formulas; a model takes a prefix of each list. *)
(* mw and distance are in their own unit, the others in tenths.            *)
(***************************************************************************)
MwSamples ==
  <<100000, 30000, 200000, 60000, 70000, 150000, 160000, 140000,
    50000, 90000, 120000, 180000, 40000, 80000, 110000, 130000, 170000, 190000>>

ConcentrationSamples ==
  <<100, 50, 200, 85, 90, 105, 60, 140, 80, 120, 55, 145, 75, 125, 110, 65,
    70, 95, 115, 130, 135, 150, 155, 160, 165, 170, 175, 180, 185, 190, 195>>

VoltageSamples ==
  <<175, 100, 250, 140, 210, 120, 230, 160, 190>>

FlowRateSamples ==
  <<15, 5, 30, 10, 22, 8, 26, 12, 18>>

DistanceSamples ==
  <<15, 10, 25, 12, 20, 18, 22, 11, 24>>

\* every value of the concentration, voltage, flowRate and distance sliders
\* (min, max, step), in the units of the sample lists
ConcentrationDomain ==
  {n \in 50 .. 200 : n % 5 = 0}

VoltageDomain ==
  {n \in 100 .. 250 : n % 5 = 0}

FlowRateDomain ==
  5 .. 30

DistanceDomain ==
  10 .. 25

Prefix(samples, n) ==
  {samples[i] : i \in 1 .. (IF n < Len(samples) THEN n ELSE Len(samples))}

\* the number of values each slider takes in the grid of the pure-function model
MwPts == 10
ConcentrationPts == 16
VoltagePts == 3
FlowRatePts == 3
DistancePts == 3

\* the number of values each slider takes, and of slider changes, in the
\* model of the running component
SliderPts == 2
MaxChanges == 3

(***************************************************************************)
(* Actions.                                                                *)
(***************************************************************************)
\* useState initial values; nothing rendered yet
Hooks0 ==
  /\ predictions = EmptyObject
  /\ biologicalOutcomes = EmptyObject
  /\ rendered = << >>
  /\ needsRender = TRUE
  /\ pendingEffect = FALSE
  /\ changes = 0

Init ==
  /\ mw = Num(100000)
  /\ concentration = Dec(100, 10)
  /\ voltage = Dec(175, 10)
  /\ flowRate = Dec(15, 10)
  /\ distance = Num(15)
  /\ Hooks0

\* onValueChange of a slider: the state setter, which asks for a render
SetMw(val) ==
  /\ rendered # << >>
  /\ changes < MaxChanges
  /\ val # mw
  /\ mw' = val
  /\ needsRender' = TRUE
  /\ changes' = changes + 1
  /\ UNCHANGED <<concentration, voltage, flowRate, distance, predictions,
                 biologicalOutcomes, rendered, pendingEffect>>

SetConcentration(val) ==
  /\ rendered # << >>
  /\ changes < MaxChanges
  /\ val # concentration
  /\ concentration' = val
  /\ needsRender' = TRUE
  /\ changes' = changes + 1
  /\ UNCHANGED <<mw, voltage, flowRate, distance, predictions,
                 biologicalOutcomes, rendered, pendingEffect>>

SetVoltage(val) ==
  /\ rendered # << >>
  /\ changes < MaxChanges
  /\ val # voltage
  /\ voltage' = val
  /\ needsRender' = TRUE
  /\ changes' = changes + 1
  /\ UNCHANGED <<mw, concentration, flowRate, distance, predictions,
                 biologicalOutcomes, rendered, pendingEffect>>

SetFlowRate(val) ==
  /\ rendered # << >>
  /\ changes < MaxChanges
  /\ val # flowRate
  /\ flowRate' = val
  /\ needsRender' = TRUE
  /\ changes' = changes + 1
  /\ UNCHANGED <<mw, concentration, voltage, distance, predictions,
                 biologicalOutcomes, rendered, pendingEffect>>

SetDistance(val) ==
  /\ rendered # << >>
  /\ changes < MaxChanges
  /\ val # distance
  /\ distance' = val
  /\ needsRender' = TRUE
  /\ changes' = changes + 1
  /\ UNCHANGED <<mw, concentration, voltage, flowRate, predictions,
                 biologicalOutcomes, rendered, pendingEffect>>

\* EffectDeps with distance left out of the list
EffectDepsWithoutDistance(r) ==
  <<r.mw, r.concentration, r.voltage, r.flowRate>>

\* EffectDeps with voltage left out of the list
EffectDepsWithoutVoltage(r) ==
  <<r.mw, r.concentration, r.flowRate, r.distance>>

\* the dependency list of the effect, read from a render's closure
EffectDeps(r) ==
  <<r.mw, r.concentration, r.voltage, r.flowRate, r.distance>>

\* A render of App: it reads the hooks; React then schedules the effect when
\* this is the first render or a dependency differs from the previous render's.
\* React runs a scheduled effect before it renders again.
Render ==
  /\ needsRender
  /\ ~pendingEffect
  /\ rendered' = [mw |-> mw, concentration |-> concentration, voltage |-> voltage,
                  flowRate |-> flowRate, distance |-> distance,
                  predictions |-> predictions,
                  biologicalOutcomes |-> biologicalOutcomes]
  /\ pendingEffect' = (rendered = << >> \/ EffectDeps(rendered') # EffectDeps(rendered))
  /\ needsRender' = FALSE
  /\ UNCHANGED <<mw, concentration, voltage, flowRate, distance,
                 predictions, biologicalOutcomes, changes>>

\* Effect with setBiologicalOutcomes called on the first run only
EffectKeepingBiology ==
  /\ pendingEffect
  /\ LET arch == predictArchitecture(rendered.mw, rendered.concentration,
                                     rendered.voltage, rendered.flowRate,
                                     rendered.distance)
     IN  /\ predictions' = arch
         /\ biologicalOutcomes' = IF HasKeys(biologicalOutcomes)
                                  THEN biologicalOutcomes
                                  ELSE predictBiology(rendered.mw, arch)
  /\ pendingEffect' = FALSE
  /\ needsRender' = TRUE
  /\ UNCHANGED <<mw, concentration, voltage, flowRate, distance, rendered, changes>>

\* The body of the useEffect, on the values of the render that scheduled it:
\* both setters run in the one call, and ask for a render.
Effect ==
  /\ pendingEffect
  /\ LET arch == predictArchitecture(rendered.mw, rendered.concentration,
                                     rendered.voltage, rendered.flowRate,
                                     rendered.distance)
     IN  /\ predictions' = arch
         /\ biologicalOutcomes' = predictBiology(rendered.mw, arch)
  /\ pendingEffect' = FALSE
  /\ needsRender' = TRUE
  /\ UNCHANGED <<mw, concentration, voltage, flowRate, distance, rendered, changes>>

Next ==
  \/ \E n \in Prefix(MwSamples, SliderPts) : SetMw(Num(n))
  \/ \E n \in Prefix(ConcentrationSamples, SliderPts) : SetConcentration(Dec(n, 10))
  \/ \E n \in Prefix(VoltageSamples, SliderPts) : SetVoltage(Dec(n, 10))
  \/ \E n \in Prefix(FlowRateSamples, SliderPts) : SetFlowRate(Dec(n, 10))
  \/ \E n \in Prefix(DistanceSamples, SliderPts) : SetDistance(Num(n))
  \/ Render
  \/ Effect

Spec ==
  Init /\ [][Next]_vars

\* The steps that take a render, or the effect, off React's schedule: among
\* the actions only Render clears needsRender and only Effect clears
\* pendingEffect, and each does so whenever it is enabled.
RenderStep ==
  needsRender /\ ~pendingEffect /\ needsRender' = FALSE

EffectStep ==
  pendingEffect /\ pendingEffect' = FALSE

\* React runs every render it has been asked for and every effect it has
\* scheduled: neither waits for ever.
SpecFair ==
  Spec /\ WF_needsRender(RenderStep) /\ WF_pendingEffect(EffectStep)

(***************************************************************************)
(* The pure-function model: the component mounted on any input tuple of    *)
(* the grid; it renders, runs the effect and renders again.                *)
(***************************************************************************)
InitGrid ==
  /\ mw \in {Num(n) : n \in Prefix(MwSamples, MwPts)}
  /\ concentration \in {Dec(n, 10) : n \in Prefix(ConcentrationSamples, ConcentrationPts)}
  /\ voltage \in {Dec(n, 10) : n \in Prefix(VoltageSamples, VoltagePts)}
  /\ flowRate \in {Dec(n, 10) : n \in Prefix(FlowRateSamples, FlowRatePts)}
  /\ distance \in {Num(n) : n \in Prefix(DistanceSamples, DistancePts)}
  /\ Hooks0

NextGrid ==
  \/ Render
  \/ Effect

SpecGrid ==
  InitGrid /\ [][NextGrid]_vars

(***************************************************************************)
(* The engine on inputs no slider can produce: the component mounted on    *)
(* input tuples taken from values below, at and beyond the slider ranges   *)
(* (mw and distance in their own unit, the others in tenths).  The effect  *)
(* reads the hooks and checks no range.                                    *)
(***************************************************************************)
OutOfDomainMw ==
  {-100000, 0, 100000, 1000000}

OutOfDomainConcentration ==
  {-100, 0, 100, 1000}

OutOfDomainVoltage ==
  {-100, 0, 175, 1000}

OutOfDomainFlowRate ==
  {-10, 0, 15, 100}

OutOfDomainDistance ==
  {-10, 0, 15, 100}

InitOutOfDomain ==
  /\ mw \in {Num(n) : n \in OutOfDomainMw}
  /\ concentration \in {Dec(n, 10) : n \in OutOfDomainConcentration}
  /\ voltage \in {Dec(n, 10) : n \in OutOfDomainVoltage}
  /\ flowRate \in {Dec(n, 10) : n \in OutOfDomainFlowRate}
  /\ distance \in {Num(n) : n \in OutOfDomainDistance}
  /\ Hooks0

SpecOutOfDomain ==
  InitOutOfDomain /\ [][NextGrid]_vars

(***************************************************************************)
(* What the last render computed besides the markup: constants of the      *)
(* function body, each a function of the hook values that render saw.      *)
(***************************************************************************)
applicationScores ==
  IF rendered # << >> /\ HasKeys(rendered.predictions)
  THEN calculateApplicationScores(rendered.predictions) ELSE EmptyObject

cellScores ==
  IF rendered # << >> /\ HasKeys(rendered.predictions)
  THEN calculateCellScores(rendered.predictions) ELSE EmptyObject

\* 100 * Math.exp(-k * week) of generateDegradationProfile; dr is
\* predictions.degradationRate
massRemainingGrowing(dr, week) ==
  LET k == Mul(Div(dr, 100), Dec(15, 100))
  IN  Mul(Num(100), MathExp(Mul(k, Num(week))))

massRemainingOf(dr, week) ==
  LET k == Mul(Div(dr, 100), Dec(15, 100))
  IN  Mul(Num(100), MathExp(Mul(Neg(k), Num(week))))

\* Math.round(100 * Math.pow(1 - week / 20, 1.5)) for week <= 20:
\* 100 * (1 - week/20)^1.5 is sqrt(5 * (20 - week)^3) / 2, and the integer
\* nearest to sqrt(n) / 2, a tie going up, is (isqrt(n) + 1) \div 2
roundedMechanicalRetentionOf(week) ==
  (IsqrtBetween(5 * (20 - week) * (20 - week) * (20 - week), 0, 200) + 1) \div 2

\* Math.round(100 / (1 + Math.exp(-0.4 * (week - 6)))), with the curve's
\* midpoint at week 5
roundedCellInfiltrationMidpoint5(week) ==
  RoundedQuotient(Num(100),
                  Add(Num(1), MathExp(Mul(Dec(-4, 10), Num(week - 5)))), 0, 100)

\* Math.round(100 / (1 + Math.exp(-0.4 * (week - 6))))
roundedCellInfiltrationOf(week) ==
  RoundedQuotient(Num(100),
                  Add(Num(1), MathExp(Mul(Dec(-4, 10), Num(week - 6)))), 0, 100)

\* the weeks of the profile: Array.from({ length: 17 }, (_, i) => i)
weeks ==
  [i \in 1 .. 17 |-> i - 1]

\* the two columns of the profile that read no hook, by row
mechanicalRetentionColumn ==
  [i \in 1 .. Len(weeks) |-> roundedMechanicalRetentionOf(weeks[i])]

cellInfiltrationColumn ==
  [i \in 1 .. Len(weeks) |-> roundedCellInfiltrationOf(weeks[i])]

\* weeks.map(...)
generateDegradationProfile(dr) ==
  [i \in 1 .. Len(weeks) |->
     [week |-> weeks[i],
      massRemaining |-> MathMax(Num(0), MathRound(massRemainingOf(dr, weeks[i]))),
      mechanicalRetention |-> MathMax(Num(0), Num(mechanicalRetentionColumn[i])),
      cellInfiltration |-> MathMin(Num(100), Num(cellInfiltrationColumn[i]))]]

\* degradationProfile without the Object.keys guard: on the empty record
\* degradationRate is undefined and every massRemaining is NaN
degradationProfileUnguarded ==
  IF rendered # << >>
  THEN IF HasKeys(rendered.predictions)
       THEN generateDegradationProfile(rendered.predictions.degradationRate)
       ELSE [i \in 1 .. Len(weeks) |->
               [week |-> weeks[i],
                massRemaining |-> [nan |-> TRUE],
                mechanicalRetention |-> MathMax(Num(0), Num(mechanicalRetentionColumn[i])),
                cellInfiltration |-> MathMin(Num(100), Num(cellInfiltrationColumn[i]))]]
  ELSE << >>

degradationProfile ==
  IF rendered # << >> /\ HasKeys(rendered.predictions)
  THEN generateDegradationProfile(rendered.predictions.degradationRate)
  ELSE << >>

\* the MW values of the comparison table
mwValues ==
  <<30000, 50000, 70000, 100000, 125000, 150000, 175000, 200000>>

\* the row generateMWComparison maps mwVal to; c is the render's concentration
MWComparisonRow(mwVal, c) ==
  LET viscFactor == Mul(Div(Num(mwVal), 100000), Div(c, 10))
      fd == Mul(Num(400), viscFactor)
      por == Sub(Num(95), Mul(Div(fd, 100), Dec(25, 10)))
      ts == Add(Add(Dec(25, 10), Mul(Div(Num(mwVal), 100000), Dec(52, 10))),
                Mul(Sub(c, Num(10)), Dec(35, 100)))
      ym == Add(Add(Num(25), Mul(Div(Num(mwVal), 100000), Num(60))),
                Mul(Sub(c, Num(10)), Dec(25, 10)))
      dr == Sub(Num(25), Mul(Div(Num(mwVal), 100000), Dec(105, 10)))
  IN  [mw |-> Div(Num(mwVal), 1000),
       fiberDiameter |-> MathRound(fd),
       porosity |-> Div(MathRound(Mul(por, Num(10))), 10),
       tensileStrength |-> Div(MathRound(Mul(ts, Num(10))), 10),
       youngsModulus |-> MathRound(ym),
       degradationRate |-> Div(MathRound(Mul(dr, Num(10))), 10)]

generateMWComparison(c) ==
  [i \in 1 .. Len(mwValues) |-> MWComparisonRow(mwValues[i], c)]

mwComparisonData ==
  IF rendered # << >> THEN generateMWComparison(rendered.concentration) ELSE << >>

\* one pass of the loop of generateTradeoffData, and the passes after it;
\* testMw is the loop variable, m and c the render's mw and concentration
RECURSIVE TradeoffFrom(_, _, _)
TradeoffFrom(testMw, m, c) ==
  IF testMw <= 200000
  THEN LET viscFactor == Mul(Div(Num(testMw), 100000), Div(c, 10))
           fd == Mul(Num(400), viscFactor)
           por == Sub(Num(95), Mul(Div(fd, 100), Dec(25, 10)))
           ps == Add(Mul(Div(fd, 200), Dec(15, 10)), Div(por, 20))
           ts == Add(Add(Dec(25, 10), Mul(Div(Num(testMw), 100000), Dec(52, 10))),
                     Mul(Sub(c, Num(10)), Dec(35, 100)))
       IN  <<[mw |-> Div(Num(testMw), 1000),
              poreSize |-> Div(MathRound(Mul(ps, Num(10))), 10),
              tensileStrength |-> Div(MathRound(Mul(ts, Num(10))), 10),
              current |-> Eq(Num(testMw), m)]>>
           \o TradeoffFrom(testMw + 20000, m, c)
  ELSE << >>

generateTradeoffData(m, c) ==
  TradeoffFrom(30000, m, c)

tradeoffData ==
  IF rendered # << >>
  THEN generateTradeoffData(rendered.mw, rendered.concentration) ELSE << >>

\* The characters of a morphology string, in order: what the string methods
\* of the markup work on.
CharsOf(str) ==
  CASE str = "Beaded fibers (beads-on-string)" ->
         <<"B", "e", "a", "d", "e", "d", " ", "f", "i", "b", "e", "r", "s",
           " ", "(", "b", "e", "a", "d", "s", "-", "o", "n", "-", "s", "t",
           "r", "i", "n", "g", ")">>
    [] str = "Thick fibers, potential ribbon-like" ->
         <<"T", "h", "i", "c", "k", " ", "f", "i", "b", "e", "r", "s", ",",
           " ", "p", "o", "t", "e", "n", "t", "i", "a", "l", " ", "r", "i",
           "b", "b", "o", "n", "-", "l", "i", "k", "e">>
    [] str = "Smooth, uniform, bead-free (optimal)" ->
         <<"S", "m", "o", "o", "t", "h", ",", " ", "u", "n", "i", "f", "o",
           "r", "m", ",", " ", "b", "e", "a", "d", "-", "f", "r", "e", "e",
           " ", "(", "o", "p", "t", "i", "m", "a", "l", ")">>
    [] str = "Uniform, bead-free fibers" ->
         <<"U", "n", "i", "f", "o", "r", "m", ",", " ", "b", "e", "a", "d",
           "-", "f", "r", "e", "e", " ", "f", "i", "b", "e", "r", "s">>

\* String.prototype.includes on character sequences: searchString occurs in
\* str at some position, compared character by character (case-sensitive)
includes(str, searchString) ==
  \E i \in 0 .. (Len(str) - Len(searchString)) :
    \A j \in 1 .. Len(searchString) : str[i + j] = searchString[j]

\* the Uniformity entry of the cascade's level 4, for a stored morphology
uniformityOf(morphology) ==
  IF includes(CharsOf(morphology), <<"u", "n", "i", "f", "o", "r", "m">>)
  THEN "Excellent" ELSE "Poor"

\* the entry as the last render shows it; the level-4 block is shown only
\* when predictions.fiberDiameter is there
uniformity ==
  IF rendered # << >> /\ HasKeys(rendered.predictions)
  THEN uniformityOf(rendered.predictions.morphology) ELSE ""

\* Radar chart data for the current prediction
radarData ==
  IF rendered # << >> /\ HasKeys(rendered.predictions)
  THEN LET p == rendered.predictions
       IN  <<[property |-> "Fiber Dia.",
              value |-> Mul(Div(p.fiberDiameter, 1500), Num(100)), fullMark |-> 100],
             [property |-> "Porosity", value |-> p.porosity, fullMark |-> 100],
             [property |-> "Tensile Str.",
              value |-> Mul(Div(p.tensileStrength, 32), Num(100)), fullMark |-> 100],
             [property |-> "Stiffness",
              value |-> Mul(Div(p.youngsModulus, 85), Num(100)), fullMark |-> 100],
             [property |-> "Degradation",
              value |-> Mul(Div(p.degradationRate, 25), Num(100)), fullMark |-> 100]>>
  ELSE << >>

(***************************************************************************)
(* Properties.                                                             *)
(***************************************************************************)
Between(x, lo, hi) ==
  Ge(x, lo) /\ Le(x, hi)

\* the hooks hold the initial input tuple 100000, 10, 17.5, 1.5, 15
AtReference ==
  /\ mw = Num(100000)
  /\ concentration = Dec(100, 10)
  /\ voltage = Dec(175, 10)
  /\ flowRate = Dec(15, 10)
  /\ distance = Num(15)

\* rendered, and no render and no effect outstanding
Idle ==
  rendered # << >> /\ ~needsRender /\ ~pendingEffect

\* C1: for every input tuple of the grid, each of the nine architecture
\* outputs stored by the effect lies within its documented clamp bounds.
C1_ArchitectureInBounds ==
  HasKeys(predictions) =>
    /\ Between(predictions.fiberDiameter, Num(150), Num(1500))
    /\ Between(predictions.porosity, Num(60), Num(95))
    /\ Between(predictions.poreSize, Num(2), Num(15))
    /\ Between(predictions.tensileStrength, Num(2), Num(32))
    /\ Between(predictions.youngsModulus, Num(20), Num(85))
    /\ Between(predictions.waterAbsorption, Num(350), Num(950))
    /\ Between(predictions.contactAngle, Num(35), Num(75))
    /\ Between(predictions.degradationRate, Num(4), Num(25))
    /\ Between(predictions.swellingRatio, Num(80), Num(100))

\* C1 witness: the effect has stored a record whose fiberDiameter and porosity
\* sit on a clamp bound (the unclamped diameter is above 1500).
C1_Witness ==
  /\ HasKeys(predictions)
  /\ Eq(predictions.fiberDiameter, Num(1500))
  /\ Eq(predictions.porosity, Num(60))

\* C2: at the reference input the architecture stage yields fiberDiameter 400,
\* porosity 85, tensileStrength 7.7, youngsModulus 85 and swellingRatio 92.
C2_ReferenceValues ==
  (AtReference /\ HasKeys(predictions)) =>
    /\ Eq(predictions.fiberDiameter, Num(400))
    /\ Eq(predictions.porosity, Num(85))
    /\ Eq(predictions.tensileStrength, Dec(77, 10))
    /\ Eq(predictions.youngsModulus, Num(85))
    /\ Eq(predictions.swellingRatio, Num(92))

\* C2 witness: the effect has run on the reference input.
C2_Witness ==
  AtReference /\ HasKeys(predictions) /\ Eq(predictions.youngsModulus, Num(85))

\* C3 as claimed: at the reference input the architecture stage yields
\* degradationRate 14.5.
C3_ReferenceDegradation145 ==
  (AtReference /\ HasKeys(predictions)) =>
    Eq(predictions.degradationRate, Dec(145, 10))

\* C3 amended: at the reference input the architecture stage yields
\* degradationRate 16, which is 25 - 10.5 + (85 - 75) * 0.15.
C3_ReferenceDegradation16 ==
  (AtReference /\ HasKeys(predictions)) =>
    Eq(predictions.degradationRate, Num(16))

\* C3 witness: the effect has run on the reference input, where the porosity
\* term of degradationRate is not zero (porosity is 85, not 75).
C3_Witness ==
  AtReference /\ HasKeys(predictions) /\ Eq(predictions.porosity, Num(85))

\* C4: the morphology is the beaded label exactly when mw < 70000 and
\* concentration < 9, the thick label exactly when mw > 150000 and
\* concentration > 10, the optimal label exactly when 100000 <= mw <= 150000,
\* and the default label in every other case.
C4_Morphology ==
  HasKeys(predictions) =>
    LET beaded  == Lt(mw, Num(70000)) /\ Lt(concentration, Num(9))
        thick   == Gt(mw, Num(150000)) /\ Gt(concentration, Num(10))
        optimal == Ge(mw, Num(100000)) /\ Le(mw, Num(150000))
    IN  /\ (predictions.morphology = "Beaded fibers (beads-on-string)") <=> beaded
        /\ (predictions.morphology = "Thick fibers, potential ribbon-like") <=> thick
        /\ (predictions.morphology = "Smooth, uniform, bead-free (optimal)") <=> optimal
        /\ (predictions.morphology = "Uniform, bead-free fibers")
             <=> (~beaded /\ ~thick /\ ~optimal)

\* C4 witness: mw is exactly 70000 with concentration below 9, and the stored
\* morphology is the default label.
C4_Witness ==
  /\ HasKeys(predictions)
  /\ mw = Num(70000)
  /\ Lt(concentration, Num(9))
  /\ predictions.morphology = "Uniform, bead-free fibers"

\* C5: the concentration window is 6..14 for mw < 70000, 8..12 for
\* 70000 <= mw < 150000 and 9..10.5 for mw >= 150000, and isInWindow is true
\* exactly when minConc <= concentration <= maxConc, both ends included.
C5_ConcentrationWindow ==
  HasKeys(predictions) =>
    /\ Lt(mw, Num(70000)) =>
         Eq(predictions.minConc, Num(6)) /\ Eq(predictions.maxConc, Num(14))
    /\ (Ge(mw, Num(70000)) /\ Lt(mw, Num(150000))) =>
         Eq(predictions.minConc, Num(8)) /\ Eq(predictions.maxConc, Num(12))
    /\ Ge(mw, Num(150000)) =>
         Eq(predictions.minConc, Num(9)) /\ Eq(predictions.maxConc, Dec(105, 10))
    /\ predictions.isInWindow <=>
         (Ge(concentration, predictions.minConc)
            /\ Le(concentration, predictions.maxConc))

\* C5 witness: mw is exactly 150000 and the concentration is on the upper end
\* 10.5 of its window, and isInWindow is true.
C5_Witness ==
  /\ HasKeys(predictions)
  /\ mw = Num(150000)
  /\ Eq(concentration, Dec(105, 10))
  /\ predictions.isInWindow

\* C6: the MSC result is the neurogenic label with scores (85, 25, 40) for
\* youngsModulus < 35, the myogenic/chondrogenic label with (40, 45, 80) for
\* 35 <= youngsModulus < 60, and the osteogenic label with (20, 90, 55) for
\* youngsModulus >= 60; the scores are (neurogenic, osteogenic, chondrogenic).
C6_MscLineage ==
  (HasKeys(predictions) /\ HasKeys(biologicalOutcomes)) =>
    LET ym == predictions.youngsModulus
        b  == biologicalOutcomes
        is(label, n, o, c) ==
          /\ b.mscLineage = label
          /\ b.neurogenicScore = n
          /\ b.osteogenicScore = o
          /\ b.chondrogenicScore = c
    IN  /\ Lt(ym, Num(35)) => is("Neurogenic (soft substrate)", 85, 25, 40)
        /\ (Ge(ym, Num(35)) /\ Lt(ym, Num(60))) => is("Myogenic/Chondrogenic", 40, 45, 80)
        /\ Ge(ym, Num(60)) => is("Osteogenic (stiff substrate)", 20, 90, 55)

\* C6 witness: an input of the grid on which the neurogenic branch is taken.
C6_Witness ==
  /\ HasKeys(biologicalOutcomes)
  /\ biologicalOutcomes.mscLineage = "Neurogenic (soft substrate)"
  /\ Lt(predictions.youngsModulus, Num(35))

\* C7: each of the six application scores and of the six cell scores a render
\* computes is at least 0 and at most 100.
C7_ScoresInRange ==
  LET a == applicationScores
      c == cellScores
  IN  /\ \A k \in DOMAIN a : Between(a[k], Num(0), Num(100))
      /\ \A k \in DOMAIN c : Between(c[k], Num(0), Num(100))

\* C7 witness: a render has computed the scores from a record with the thickest
\* fibres, where the skin score has fallen below 25 and a cell score is 95.
C7_Witness ==
  /\ HasKeys(applicationScores)
  /\ Lt(applicationScores.skinRegeneration, Num(25))
  /\ Eq(cellScores.osteoblasts, Num(95))

\* C8: each biological outcome stored by the effect lies within its documented
\* bounds, and each of the three MSC scores is within 0..100.
C8_BiologyInBounds ==
  HasKeys(biologicalOutcomes) =>
    LET b == biologicalOutcomes
    IN  /\ Between(b.cellViability, Num(85), Num(98))
        /\ Between(b.proliferationTime, Num(20), Num(48))
        /\ Between(b.gagContent, Num(5), Num(45))
        /\ Between(b.col2Expression, Num(1), Num(8))
        /\ Between(b.aggrecanExpression, Num(1), Num(6))
        /\ Between(b.col1_col2_ratio, Dec(1, 10), Dec(25, 10))
        /\ Between(b.burstRelease, Num(15), Num(75))
        /\ Between(b.sustainedDuration, Num(3), Num(28))
        /\ b.neurogenicScore \in 0 .. 100
        /\ b.osteogenicScore \in 0 .. 100
        /\ b.chondrogenicScore \in 0 .. 100

\* C8 witness: the effect has stored outcomes of which col2Expression sits on
\* its upper bound and col1_col2_ratio on its lower bound.
C8_Witness ==
  /\ HasKeys(biologicalOutcomes)
  /\ Eq(biologicalOutcomes.col2Expression, Num(8))
  /\ Eq(biologicalOutcomes.col1_col2_ratio, Dec(1, 10))

\* C9: once the recompute has run (nothing is outstanding), the stored
\* architecture and biology records are the stage formulas applied to the
\* current five inputs, whatever sequence of slider changes led there.
C9_RecordsAreFunctionOfInputs ==
  Idle =>
    LET arch == predictArchitecture(mw, concentration, voltage, flowRate, distance)
    IN  /\ predictions = arch
        /\ biologicalOutcomes = predictBiology(mw, arch)

\* C9 witness: three slider changes have ended, by a detour, on an input tuple
\* that one change reaches (only the concentration differs from the initial
\* tuple), and the recompute has run.
C9_Witness ==
  /\ Idle
  /\ changes >= 3
  /\ mw = Num(100000)
  /\ concentration # Dec(100, 10)
  /\ voltage = Dec(175, 10)
  /\ flowRate = Dec(15, 10)
  /\ distance = Num(15)
  /\ HasKeys(predictions)

\* C10 as claimed: no render pairs data derived from the new inputs with
\* stored records derived from the previous inputs: whenever a render shows a
\* stored architecture record, that record is the one for the inputs the same
\* render computes its tables from, and likewise the biology record.
C10_AtomicRecompute ==
  (rendered # << >> /\ HasKeys(rendered.predictions)) =>
    LET arch == predictArchitecture(rendered.mw, rendered.concentration,
                                    rendered.voltage, rendered.flowRate,
                                    rendered.distance)
    IN  /\ rendered.predictions = arch
        /\ rendered.biologicalOutcomes = predictBiology(rendered.mw, arch)

\* the stored records are the stage formulas applied to the hooks' inputs
RecordsCurrent ==
  LET arch == predictArchitecture(mw, concentration, voltage, flowRate, distance)
  IN  /\ predictions = arch
      /\ biologicalOutcomes = predictBiology(mw, arch)

\* C11: whenever, after a slider change, the stored records are not those of
\* the current inputs, the render and the effect eventually run and leave the
\* component at rest with the records of the current inputs, whichever of
\* the five inputs was changed (renders and effects scheduled fairly).
C11_EventualConsistency ==
  (changes > 0 /\ ~RecordsCurrent) ~> (Idle /\ RecordsCurrent)

C11_Witness ==
  /\ changes = 1
  /\ distance # Num(15)
  /\ Idle
  /\ RecordsCurrent

\* |x|
Abs(x) ==
  Mk(FALSE, x.man, x.exp, x.q)

\* C12 as claimed: every render's trade-off table has nine points, at MW
\* 30, 50, ..., 190 (kDa); at least one point is flagged current, and every
\* flagged point is at the least distance from the render's mw.
C12_NearestPointFlagged ==
  rendered # << >> =>
    LET t == tradeoffData
        dist(i) == Abs(Sub(Mul(t[i].mw, Num(1000)), rendered.mw))
    IN  /\ Len(t) = 9
        /\ \A i \in 1 .. Len(t) : t[i].mw = Num(30 + 20 * (i - 1))
        /\ \E i \in 1 .. Len(t) : t[i].current
        /\ \A i \in 1 .. Len(t) :
             t[i].current => \A j \in 1 .. Len(t) : Le(dist(i), dist(j))

\* C13 as claimed: every render's MW-comparison table has eight rows, for MW
\* 30, 50, 70, 100, 125, 150, 175 and 200 (kDa), and each row holds, rounded
\* as the table rounds, the fiberDiameter, porosity, tensileStrength,
\* youngsModulus and degradationRate the architecture stage gives for that MW
\* with the render's concentration, voltage 17.5, flowRate 1.5 and
\* distance 15.
C13_ComparisonIsStageMath ==
  rendered # << >> =>
    LET t == mwComparisonData
        stage(i) == predictArchitecture(Mul(t[i].mw, Num(1000)),
                                        rendered.concentration,
                                        Dec(175, 10), Dec(15, 10), Num(15))
    IN  /\ Len(t) = 8
        /\ \A i \in 1 .. Len(t) :
             /\ t[i].mw = Num(mwValues[i] \div 1000)
             /\ t[i].fiberDiameter = MathRound(stage(i).fiberDiameter)
             /\ t[i].porosity = Div(MathRound(Mul(stage(i).porosity, Num(10))), 10)
             /\ t[i].tensileStrength
                  = Div(MathRound(Mul(stage(i).tensileStrength, Num(10))), 10)
             /\ t[i].youngsModulus = MathRound(stage(i).youngsModulus)
             /\ t[i].degradationRate
                  = Div(MathRound(Mul(stage(i).degradationRate, Num(10))), 10)

\* C14: whenever a render shows a degradation profile, its first row is
\* week 0 with massRemaining 100, mechanicalRetention 100 and
\* cellInfiltration 8 (100 / (1 + e^2.4) rounded), whatever the inputs and
\* the degradationRate.
C14_WeekZeroRow ==
  (rendered # << >> /\ HasKeys(rendered.predictions)) =>
    LET row == degradationProfile[1]
    IN  /\ row.week = 0
        /\ row.massRemaining = Num(100)
        /\ row.mechanicalRetention = Num(100)
        /\ row.cellInfiltration = Num(8)

C14_Witness ==
  /\ rendered # << >>
  /\ HasKeys(rendered.predictions)
  /\ Gt(rendered.predictions.degradationRate, Num(24))
  /\ degradationProfile[1].cellInfiltration = Num(8)
  /\ degradationProfile[2].massRemaining = Num(96)

\* C15: whenever a render shows a degradation profile, it has 17 rows, for
\* weeks 0, 1, ..., 16 in this order; every massRemaining,
\* mechanicalRetention and cellInfiltration is within [0, 100]; from one
\* week to the next massRemaining and mechanicalRetention do not increase
\* and cellInfiltration does not decrease.
C15_ProfileShape ==
  (rendered # << >> /\ HasKeys(rendered.predictions)) =>
    LET t == degradationProfile
    IN  /\ Len(t) = 17
        /\ \A i \in 1 .. Len(t) :
             LET row == t[i]
             IN  /\ row.week = i - 1
                 /\ Between(row.massRemaining, Num(0), Num(100))
                 /\ Between(row.mechanicalRetention, Num(0), Num(100))
                 /\ Between(row.cellInfiltration, Num(0), Num(100))
                 /\ i > 1 =>
                      LET before == t[i - 1]
                      IN  /\ Ge(before.massRemaining, row.massRemaining)
                          /\ Ge(before.mechanicalRetention, row.mechanicalRetention)
                          /\ Le(before.cellInfiltration, row.cellInfiltration)

C15_Witness ==
  /\ rendered # << >>
  /\ HasKeys(rendered.predictions)
  /\ Len(degradationProfile) = 17
  /\ Lt(degradationProfile[17].massRemaining, Num(60))
  /\ degradationProfile[17].mechanicalRetention = Num(9)
  /\ degradationProfile[17].cellInfiltration = Num(98)

\* the MW tier of the concentration window: 1 below 70000, 2 from there to
\* below 150000, 3 from 150000 up
Tier(m) ==
  IF Lt(m, Num(70000)) THEN 1 ELSE IF Lt(m, Num(150000)) THEN 2 ELSE 3

\* the MW values of the grid in a tier above the tier of mw
HigherTierMws ==
  {n \in Prefix(MwSamples, MwPts) : Tier(Num(n)) > Tier(mw)}

WindowWidth(lo, hi) ==
  Sub(hi, lo)

WindowCentre(lo, hi) ==
  Div(Add(lo, hi), 2)

\* C16 as claimed: against the stored window of the current mw, the window
\* of every MW in a higher tier is narrower, has a greater minConc, and has
\* a centre that is not lower.
C16_WindowShiftsUpward ==
  HasKeys(predictions) =>
    \A n \in HigherTierMws :
      /\ Lt(WindowWidth(minConcOf(Num(n)), maxConcOf(Num(n))),
            WindowWidth(predictions.minConc, predictions.maxConc))
      /\ Gt(minConcOf(Num(n)), predictions.minConc)
      /\ Ge(WindowCentre(minConcOf(Num(n)), maxConcOf(Num(n))),
            WindowCentre(predictions.minConc, predictions.maxConc))

\* C16, amended: against the stored window of the current mw, the window of
\* every MW in a higher tier is narrower, has a greater minConc and a
\* smaller maxConc, and has a centre that is not higher; the centre of the
\* top tier is lower than that of the two tiers below it.
C16_WindowNarrowsFromBothEnds ==
  HasKeys(predictions) =>
    \A n \in HigherTierMws :
      /\ Lt(WindowWidth(minConcOf(Num(n)), maxConcOf(Num(n))),
            WindowWidth(predictions.minConc, predictions.maxConc))
      /\ Gt(minConcOf(Num(n)), predictions.minConc)
      /\ Lt(maxConcOf(Num(n)), predictions.maxConc)
      /\ Le(WindowCentre(minConcOf(Num(n)), maxConcOf(Num(n))),
            WindowCentre(predictions.minConc, predictions.maxConc))
      /\ Tier(Num(n)) = 3 =>
           Lt(WindowCentre(minConcOf(Num(n)), maxConcOf(Num(n))),
              WindowCentre(predictions.minConc, predictions.maxConc))

C16_Witness ==
  /\ HasKeys(predictions)
  /\ mw = Num(140000)
  /\ predictions.minConc = Num(8)
  /\ predictions.maxConc = Num(12)
  /\ 150000 \in HigherTierMws

\* some input lies outside its slider range
OutOfDomain ==
  \/ ~Between(mw, Num(30000), Num(200000))
  \/ ~Between(concentration, Num(5), Num(20))
  \/ ~Between(voltage, Num(10), Num(25))
  \/ ~Between(flowRate, Dec(5, 10), Num(3))
  \/ ~Between(distance, Num(10), Num(25))

\* C17: mounted on inputs outside the slider ranges, the component is not
\* stopped: once the first render's effect has run, both records are stored,
\* with all nine architecture properties and every clamped biological
\* outcome within its documented bounds.
C17_OutOfDomainInBounds ==
  (OutOfDomain /\ rendered # << >> /\ ~pendingEffect) =>
    /\ HasKeys(predictions)
    /\ HasKeys(biologicalOutcomes)
    /\ LET p == predictions
           b == biologicalOutcomes
       IN  /\ Between(p.fiberDiameter, Num(150), Num(1500))
           /\ Between(p.porosity, Num(60), Num(95))
           /\ Between(p.poreSize, Num(2), Num(15))
           /\ Between(p.tensileStrength, Num(2), Num(32))
           /\ Between(p.youngsModulus, Num(20), Num(85))
           /\ Between(p.waterAbsorption, Num(350), Num(950))
           /\ Between(p.contactAngle, Num(35), Num(75))
           /\ Between(p.degradationRate, Num(4), Num(25))
           /\ Between(p.swellingRatio, Num(80), Num(100))
           /\ Between(b.cellViability, Num(85), Num(98))
           /\ Between(b.proliferationTime, Num(20), Num(48))
           /\ Between(b.gagContent, Num(5), Num(45))
           /\ Between(b.col2Expression, Num(1), Num(8))
           /\ Between(b.aggrecanExpression, Num(1), Num(6))
           /\ Between(b.col1_col2_ratio, Dec(1, 10), Dec(25, 10))
           /\ Between(b.burstRelease, Num(15), Num(75))
           /\ Between(b.sustainedDuration, Num(3), Num(28))

\* C17 witness: mw 1000000, concentration 100, voltage 100, flowRate 0 and
\* distance 0 have gone through the effect; the voltage factor is negative
\* and the diameter sits on its lower bound.
C17_Witness ==
  /\ mw = Num(1000000)
  /\ concentration = Num(100)
  /\ voltage = Num(100)
  /\ flowRate = Num(0)
  /\ distance = Num(0)
  /\ HasKeys(predictions)
  /\ predictions.fiberDiameter = Num(150)
  /\ predictions.youngsModulus = Num(85)

\* C18 as claimed: with the MW slider at 200000 there is a setting of the
\* other four sliders at which the architecture stage gives youngsModulus 78
\* and tensileStrength 29.8 (as displayed: to the integer, to one decimal).
C18_CalibrationPoint ==
  (rendered # << >> /\ rendered.mw = Num(200000)) =>
    \E c \in ConcentrationDomain :
      /\ MathRound(youngsModulusOf(rendered.mw, Dec(c, 10))) = Num(78)
      /\ \E v \in VoltageDomain, q \in FlowRateDomain, d \in DistanceDomain :
           LET fd == fiberDiameterOf(rendered.mw, Dec(c, 10), Dec(v, 10),
                                     Dec(q, 10), Num(d))
               ts == tensileStrengthOf(rendered.mw, Dec(c, 10), fd)
           IN  Div(MathRound(Mul(ts, Num(10))), 10) = Dec(298, 10)

\* the MW values of the grid above the current mw, and the concentrations
\* of the grid above the current concentration
HigherMws ==
  {n \in Prefix(MwSamples, MwPts) : Gt(Num(n), mw)}

HigherConcentrations ==
  {n \in Prefix(ConcentrationSamples, ConcentrationPts) : Gt(Dec(n, 10), concentration)}

\* C19: against the stored record of the current inputs, the architecture
\* stage at every higher MW of the grid, the other four inputs unchanged,
\* gives a fiberDiameter, youngsModulus and contactAngle that are not smaller
\* and a porosity, waterAbsorption, degradationRate and swellingRatio that
\* are not greater.
C19_MonotoneInMw ==
  HasKeys(predictions) =>
    \A n \in HigherMws :
      LET fd == fiberDiameterOf(Num(n), concentration, voltage, flowRate, distance)
          por == porosityOf(fd, voltage)
      IN  /\ Ge(fd, predictions.fiberDiameter)
          /\ Ge(youngsModulusOf(Num(n), concentration), predictions.youngsModulus)
          /\ Ge(contactAngleOf(Num(n), por), predictions.contactAngle)
          /\ Le(por, predictions.porosity)
          /\ Le(waterAbsorptionOf(Num(n), por), predictions.waterAbsorption)
          /\ Le(degradationRateOf(Num(n), por), predictions.degradationRate)
          /\ Le(swellingRatioOf(Num(n), concentration), predictions.swellingRatio)

\* C19 witness: a record stored for mw 30000 whose fiberDiameter is below,
\* and whose degradationRate is above, those of mw 200000.
C19_Witness ==
  /\ HasKeys(predictions)
  /\ mw = Num(30000)
  /\ 200000 \in HigherMws
  /\ LET fd == fiberDiameterOf(Num(200000), concentration, voltage, flowRate, distance)
     IN  /\ Lt(predictions.fiberDiameter, fd)
         /\ Gt(predictions.degradationRate,
               degradationRateOf(Num(200000), porosityOf(fd, voltage)))

\* C20 as claimed: against the stored record of the current inputs, the
\* architecture stage gives a tensileStrength that is not smaller at every
\* higher MW of the grid, and at every higher concentration of the grid,
\* the other four inputs unchanged.
C20_TensileStrengthMonotone ==
  HasKeys(predictions) =>
    /\ \A n \in HigherMws :
         Ge(tensileStrengthOf(Num(n), concentration,
                              fiberDiameterOf(Num(n), concentration, voltage,
                                              flowRate, distance)),
            predictions.tensileStrength)
    /\ \A n \in HigherConcentrations :
         Ge(tensileStrengthOf(mw, Dec(n, 10),
                              fiberDiameterOf(mw, Dec(n, 10), voltage,
                                              flowRate, distance)),
            predictions.tensileStrength)

\* C21: against the stored records of the current inputs, the two stages at
\* every higher MW of the grid, the other four inputs unchanged, give a
\* burstRelease that is not greater and a sustainedDuration that is not
\* smaller.
C21_DrugReleaseFollowsMw ==
  (HasKeys(predictions) /\ HasKeys(biologicalOutcomes)) =>
    \A n \in HigherMws :
      LET fd == fiberDiameterOf(Num(n), concentration, voltage, flowRate, distance)
          por == porosityOf(fd, voltage)
      IN  /\ Le(burstReleaseOf(Num(n), por), biologicalOutcomes.burstRelease)
          /\ Ge(sustainedDurationOf(Num(n), por), biologicalOutcomes.sustainedDuration)

\* C21 witness: outcomes stored for mw 30000 whose burstRelease is above, and
\* whose sustainedDuration is below, those of mw 200000, neither of the four
\* values sitting on a clamp bound.
C21_Witness ==
  /\ HasKeys(biologicalOutcomes)
  /\ mw = Num(30000)
  /\ 200000 \in HigherMws
  /\ LET fd == fiberDiameterOf(Num(200000), concentration, voltage, flowRate, distance)
         por == porosityOf(fd, voltage)
         burst == burstReleaseOf(Num(200000), por)
         sustained == sustainedDurationOf(Num(200000), por)
     IN  /\ Lt(biologicalOutcomes.burstRelease, Num(75))
         /\ Gt(burst, Num(15))
         /\ Lt(burst, biologicalOutcomes.burstRelease)
         /\ Gt(biologicalOutcomes.sustainedDuration, Num(3))
         /\ Lt(sustained, Num(28))
         /\ Gt(sustained, biologicalOutcomes.sustainedDuration)

\* the input tuples the sliders of the component model can hold
SliderTuples ==
  [mw : {Num(n) : n \in Prefix(MwSamples, SliderPts)},
   concentration : {Dec(n, 10) : n \in Prefix(ConcentrationSamples, SliderPts)},
   voltage : {Dec(n, 10) : n \in Prefix(VoltageSamples, SliderPts)},
   flowRate : {Dec(n, 10) : n \in Prefix(FlowRateSamples, SliderPts)},
   distance : {Num(n) : n \in Prefix(DistanceSamples, SliderPts)}]

\* C22: in every state the two stored records are both empty or both
\* non-empty, and when they are non-empty there is one input tuple of which
\* the stored architecture record and the stored biology record are both the
\* stage results: no state pairs the architecture of one tuple with the
\* biology of another.
C22_RecordsFromSameInputs ==
  /\ HasKeys(predictions) <=> HasKeys(biologicalOutcomes)
  /\ HasKeys(predictions) =>
       \E t \in SliderTuples :
         LET arch == predictArchitecture(t.mw, t.concentration, t.voltage,
                                         t.flowRate, t.distance)
         IN  /\ predictions = arch
             /\ biologicalOutcomes = predictBiology(t.mw, arch)

\* C22 witness: after two slider changes, of which one changed mw, the effect
\* is scheduled for the new inputs and the stored records are still a pair
\* of an earlier tuple, not of the current one.
C22_Witness ==
  /\ changes = 2
  /\ pendingEffect
  /\ mw # Num(100000)
  /\ HasKeys(predictions)
  /\ HasKeys(biologicalOutcomes)
  /\ ~RecordsCurrent

\* x is a number, not the NaN that arithmetic on undefined gives
IsNumber(x) ==
  DOMAIN x = DOMAIN Num(0)

\* what a render that saw the empty predictions record computed: nothing for
\* the four guarded values, and the two tables in full
GuardedValuesEmpty ==
  /\ applicationScores = EmptyObject
  /\ cellScores = EmptyObject
  /\ degradationProfile = << >>
  /\ radarData = << >>
  /\ Len(mwComparisonData) = Len(mwValues)
  /\ Len(tradeoffData) = 9

\* what a render that saw a stored predictions record computed
GuardedValuesPresent ==
  /\ DOMAIN applicationScores = {"skinRegeneration", "vascularEngineering",
                                 "nerveGuidance", "cartilageRepair",
                                 "boneEngineering", "drugDelivery"}
  /\ DOMAIN cellScores = {"fibroblasts", "endothelial", "schwann",
                          "chondrocytes", "osteoblasts", "stemCells"}
  /\ Len(degradationProfile) = Len(weeks)
  /\ \A k \in DOMAIN applicationScores : IsNumber(applicationScores[k])
  /\ \A k \in DOMAIN cellScores : IsNumber(cellScores[k])
  /\ LET t == degradationProfile
     IN  \A i \in 1 .. Len(weeks) : IsNumber(t[i].massRemaining)
  /\ LET t == radarData
     IN  \A i \in 1 .. 5 : IsNumber(t[i].value)
  /\ Len(radarData) = 5

\* C23: a render that saw the empty predictions record computed no scores,
\* no profile and no radar data, and did compute the MW-comparison and
\* trade-off tables; a render that saw a stored record computed all four;
\* and once the effect has stored a record, no step empties it, so no later
\* render sees the empty record again.
C23_InitialStateGuard ==
  /\ [](rendered # << >> =>
          IF HasKeys(rendered.predictions)
          THEN GuardedValuesPresent ELSE GuardedValuesEmpty)
  /\ [][HasKeys(predictions) => HasKeys(predictions')]_vars
  /\ [][(rendered # << >> /\ HasKeys(rendered.predictions))
          => HasKeys(rendered'.predictions)]_vars

\* C23 witness: the first render has run and the effect has not: the render
\* saw the empty record, computed none of the four guarded values, and
\* computed the two tables from the initial inputs.
C23_Witness ==
  /\ rendered # << >>
  /\ ~HasKeys(rendered.predictions)
  /\ pendingEffect
  /\ degradationProfile = << >>
  /\ radarData = << >>
  /\ Len(mwComparisonData) = 8
  /\ tradeoffData[1].mw = Num(30)

\* C24: each of the six application scores and of the six cell scores a
\* render computes is at most 95, so none is the cap 100 and Math.min(100, ...)
\* has returned the product itself.
C24_ScoresAtMost95 ==
  LET a == applicationScores
      c == cellScores
  IN  /\ \A k \in DOMAIN a : Le(a[k], Num(95))
      /\ \A k \in DOMAIN c : Le(c[k], Num(95))

\* C24 witness: a render has computed the scores from a record whose
\* youngsModulus is below 60, so that the ratio factors youngsModulus / 60
\* and youngsModulus / 70 are in use, and whose skin score is the full 95.
C24_Witness ==
  /\ HasKeys(applicationScores)
  /\ Lt(rendered.predictions.youngsModulus, Num(60))
  /\ Eq(applicationScores.skinRegeneration, Num(95))
  /\ Lt(applicationScores.boneEngineering, Num(80))
  /\ Lt(cellScores.osteoblasts, Num(80))

\* the label given by the three rules tried in the order first, second,
\* third (each of "beaded", "thick", "optimal"), the default when none holds
RuleHolds(rule, m, c) ==
  CASE rule = "beaded" -> beadedRule(m, c)
    [] rule = "thick" -> thickRule(m, c)
    [] rule = "optimal" -> optimalRule(m, c)

RuleLabel(rule) ==
  CASE rule = "beaded" -> "Beaded fibers (beads-on-string)"
    [] rule = "thick" -> "Thick fibers, potential ribbon-like"
    [] rule = "optimal" -> "Smooth, uniform, bead-free (optimal)"

MorphologyInOrder(first, second, third, m, c) ==
  IF RuleHolds(first, m, c) THEN RuleLabel(first)
  ELSE IF RuleHolds(second, m, c) THEN RuleLabel(second)
  ELSE IF RuleHolds(third, m, c) THEN RuleLabel(third)
  ELSE "Uniform, bead-free fibers"

Rules ==
  {"beaded", "thick", "optimal"}

\* C25: for every input tuple of the grid no two of the three rule conditions
\* hold together, and the three rules tried in any of the six orders give
\* the morphology the effect stored.
C25_RulesExclusive ==
  HasKeys(predictions) =>
    /\ \A r1, r2 \in Rules :
         (r1 # r2) => ~(RuleHolds(r1, mw, concentration)
                          /\ RuleHolds(r2, mw, concentration))
    /\ \A r1, r2, r3 \in Rules :
         ({r1, r2, r3} = Rules) =>
           MorphologyInOrder(r1, r2, r3, mw, concentration) = predictions.morphology

\* C25 witness: mw is exactly 150000 with a concentration above 10, where the
\* optimal rule holds and the thick rule fails on its mw comparison alone.
C25_Witness ==
  /\ HasKeys(predictions)
  /\ mw = Num(150000)
  /\ Gt(concentration, Num(10))
  /\ optimalRule(mw, concentration)
  /\ ~thickRule(mw, concentration)
  /\ predictions.morphology = "Smooth, uniform, bead-free (optimal)"

\* settings of voltage, flowRate and distance to compare against: the
\* initial ones and the two corners of the slider ranges
OtherSettings ==
  {[voltage |-> Dec(175, 10), flowRate |-> Dec(15, 10), distance |-> Num(15)],
   [voltage |-> Num(10), flowRate |-> Dec(5, 10), distance |-> Num(10)],
   [voltage |-> Num(25), flowRate |-> Num(3), distance |-> Num(25)]}

\* the outputs of the two stages that C26 is about
StiffnessOutputs(arch, bio) ==
  [youngsModulus |-> arch.youngsModulus,
   swellingRatio |-> arch.swellingRatio,
   minConc |-> arch.minConc,
   maxConc |-> arch.maxConc,
   isInWindow |-> arch.isInWindow,
   morphology |-> arch.morphology,
   mscLineage |-> bio.mscLineage,
   osteogenicScore |-> bio.osteogenicScore,
   chondrogenicScore |-> bio.chondrogenicScore,
   neurogenicScore |-> bio.neurogenicScore]

\* C26: for every input tuple of the grid, the two stages run on the same mw
\* and concentration with any of the other settings of voltage, flowRate and
\* distance give the youngsModulus, swellingRatio, minConc, maxConc,
\* isInWindow, morphology, MSC label and three MSC scores that are stored.
\* All tuples with one mw and concentration agree with the run on the
\* initial settings, hence with one another.
C26_NonInterference ==
  (HasKeys(predictions) /\ HasKeys(biologicalOutcomes)) =>
    \A s \in OtherSettings :
      LET arch == predictArchitecture(mw, concentration, s.voltage, s.flowRate,
                                      s.distance)
      IN  StiffnessOutputs(arch, predictBiology(mw, arch))
            = StiffnessOutputs(predictions, biologicalOutcomes)

\* C26 witness: records stored for settings that differ from the initial
\* ones in voltage, flowRate and distance, with a fiberDiameter that the
\* initial settings do not give.
C26_Witness ==
  /\ HasKeys(predictions)
  /\ HasKeys(biologicalOutcomes)
  /\ voltage # Dec(175, 10)
  /\ flowRate # Dec(15, 10)
  /\ distance # Num(15)
  /\ ~Eq(predictions.fiberDiameter,
         fiberDiameterOf(mw, concentration, Dec(175, 10), Dec(15, 10), Num(15)))

\* the MSC part of the stored biology record
MscResult ==
  [mscLineage |-> biologicalOutcomes.mscLineage,
   neurogenicScore |-> biologicalOutcomes.neurogenicScore,
   osteogenicScore |-> biologicalOutcomes.osteogenicScore,
   chondrogenicScore |-> biologicalOutcomes.chondrogenicScore]

\* the score of the lineage a label names
NamedScore(r) ==
  CASE r.mscLineage = "Neurogenic (soft substrate)" -> r.neurogenicScore
    [] r.mscLineage = "Myogenic/Chondrogenic" -> r.chondrogenicScore
    [] r.mscLineage = "Osteogenic (stiff substrate)" -> r.osteogenicScore

\* C27: the MSC label and scores stored by the effect are one of three
\* combinations, never the initial "Myogenic (intermediate)" with 50/50/50,
\* and the score of the lineage the label names is strictly above the other
\* two scores.
C27_MscCombinations ==
  HasKeys(biologicalOutcomes) =>
    LET r == MscResult
    IN  /\ r.mscLineage \in {"Neurogenic (soft substrate)", "Myogenic/Chondrogenic",
                              "Osteogenic (stiff substrate)"}
        /\ <<r.mscLineage, r.neurogenicScore, r.osteogenicScore, r.chondrogenicScore>>
             \in {<<"Neurogenic (soft substrate)", 85, 25, 40>>,
                  <<"Myogenic/Chondrogenic", 40, 45, 80>>,
                  <<"Osteogenic (stiff substrate)", 20, 90, 55>>}
        /\ Cardinality({k \in {"neurogenicScore", "osteogenicScore", "chondrogenicScore"} :
                          r[k] >= NamedScore(r)}) = 1

\* C27 witness: youngsModulus is exactly 60, where neither of the first two
\* conditions holds, and the stored label is the osteogenic one.
C27_Witness ==
  /\ HasKeys(biologicalOutcomes)
  /\ Eq(predictions.youngsModulus, Num(60))
  /\ biologicalOutcomes.mscLineage = "Osteogenic (stiff substrate)"
  /\ biologicalOutcomes.osteogenicScore = 90

\* C28 as claimed: whenever a render shows the Uniformity entry, it reads
\* "Excellent" for the two morphology classes that are uniform, the default
\* "Uniform, bead-free fibers" and "Smooth, uniform, bead-free (optimal)",
\* and "Poor" for the beaded and the thick class.
C28_UniformityConsistent ==
  (rendered # << >> /\ HasKeys(rendered.predictions)) =>
    LET morphology == rendered.predictions.morphology
    IN  /\ morphology \in {"Uniform, bead-free fibers",
                            "Smooth, uniform, bead-free (optimal)"}
             => uniformity = "Excellent"
        /\ morphology \in {"Beaded fibers (beads-on-string)",
                            "Thick fibers, potential ribbon-like"}
             => uniformity = "Poor"

====
